---- MODULE Spec2Model ----
(***************************************************************************)
(* Model of the bevy-showcase examples.                                    *)
(*                                                                         *)
(*   examples/ncollide2d.rs   bouncing spheres: position_system (integrate *)
(*                            + wrap in [0,W]x[0,H]) and collision_system   *)
(*                            (reflect + depenetrate per contact)          *)
(*   examples/spaceship_01.rs the ship: position_system (wrap in           *)
(*                            [-W/2,W/2]x[-H/2,H/2])                       *)
(*                                                                         *)
(* The two examples are separate programs: Init chooses which one runs.    *)
(* Lengths are pixels (arena units for the ship), f32 values are modelled  *)
(* as exact integers; vectors are pairs <<x, y>>.                          *)
(***************************************************************************)
EXTENDS Integers, Sequences, FiniteSets, TLC

\* ---------------------------------------------------------------- bounds
\* Spheres that can be spawned in a run.
MaxBodies == 3
\* Frames of the ncollide2d example in a run.
MaxTicks == 3
\* Contacts resolved in a run.
MaxContacts == 2

\* ------------------------------------------------------------- constants
WINDOW_WIDTH == 1280
WINDOW_HEIGHT == 800
\* CAMERA_SCALE = 0.1, kept as its inverse
CAMERA_SCALE_INV == 10
ARENA_WIDTH == WINDOW_WIDTH \div CAMERA_SCALE_INV
ARENA_HEIGHT == WINDOW_HEIGHT \div CAMERA_SCALE_INV
\* Ball::new(128.0 * 0.2): the radius 25.6 in tenths of a pixel
BallRadiusTenths == 256

\* --------------------------------------------------------------- vectors
VAdd(a, b) == <<a[1] + b[1], a[2] + b[2]>>
VScale(a, k) == <<a[1] * k, a[2] * k>>
Dot(a, b) == a[1] * b[1] + a[2] * b[2]
Norm2(a) == Dot(a, a)
Zero == <<0, 0>>

\* ------------------------------------------------------- input alphabets
\* Cursor positions delivered by CursorMoved events (inside the window).
MousePositions == {<<0, 0>>, <<960, 600>>}
\* rng.gen_range(-W/4, W/4) x rng.gen_range(-H/4, H/4), in pixels per time unit
SpawnVelocities == {<<-160, -100>>, <<160, 100>>, <<0, 0>>}
\* time.delta_seconds, in time units
Elapsed == {2}
\* Contact normals (Unit<Vector2>) and penetration depths of the narrow phase.
UnitNormals == {<<1, 0>>, <<0, 1>>}
Depths == {32}
\* Values the Contact record can carry but the narrow phase's contract excludes.
RawNormals == UnitNormals \cup {<<2, 0>>}
RawDepths == Depths \cup {-32}
\* Linear velocities the rapier step leaves the ship with, per frame.
ShipVelocities == {<<-32, -20>>, <<32, 20>>, <<32, 0>>, <<0, -20>>, <<0, 0>>}

Entities == 1..MaxBodies
NoContact == [h1 |-> 0, h2 |-> 0, normal |-> Zero, depth |-> 0]

VARIABLES
    example,     \* which program runs: "ncollide2d" or "spaceship_01"
    pc,          \* ncollide2d: the system that runs next in the frame
    tick,        \* ncollide2d: frames completed
    mouse,       \* ncollide2d: MousePosition resource
    objects,     \* ncollide2d: entities with an object in the CollisionWorld
    live,        \* ncollide2d: entities whose components the queries see
    transform,   \* ncollide2d: Transform translation (x, y) per entity
    velocity,    \* ncollide2d: Velocity per entity
    worldPos,    \* ncollide2d: position of the entity's collision object
    yielded,     \* ncollide2d: pairs contact_pairs has yielded in this frame
    nContacts,   \* ncollide2d: contacts resolved since the start
    shipPc,      \* spaceship_01: "physics" or "position"
    shipPos,     \* spaceship_01: body.position.translation
    shipVel,     \* spaceship_01: body.linvel
    \* history, written but never read by the program's actions
    integrated,  \* translation of each entity as wrap received it this frame
    shipIn,      \* position of the ship as wrap received it
    spawnSpeed2, \* squared speed each entity was spawned with
    frameVel,    \* velocity of each entity when the frame started
    framePos,    \* translation of each entity when collision_system started
    last,        \* the contact resolved by the latest step of this frame
    touched,     \* entities named by the contacts resolved in this frame
    lastVel,     \* per entity, the mirror image of its velocity about the
                 \* normal of the latest contact of this frame that named it
    lastPos      \* per entity, its translation as that contact leaves it

progVars == <<pc, tick, mouse, objects, live, transform, velocity, worldPos, yielded, nContacts>>
shipVars == <<shipPc, shipPos, shipVel>>
frameHist == <<last, touched, lastVel, lastPos>>
histVars == <<integrated, shipIn, spawnSpeed2, frameVel, framePos, frameHist>>
vars == <<example, progVars, shipVars, histVars>>

\* ===================================================== ncollide2d example

\* Mutant: the comparisons take the bound itself as outside.
WrapCornerX_Inclusive(x, vx) ==
    IF x <= 0 /\ vx < 0 THEN WINDOW_WIDTH
    ELSE IF x >= WINDOW_WIDTH /\ vx > 0 THEN 0
    ELSE x

\* Mutant: no look at the velocity, and the bound itself counts as outside.
WrapCornerX_Unguarded(x, vx) ==
    IF x <= 0 THEN WINDOW_WIDTH
    ELSE IF x >= WINDOW_WIDTH THEN 0
    ELSE x

\* position_system, lines 66-70: the x axis of the wrap
WrapCornerX(x, vx) ==
    IF x < 0 /\ vx < 0 THEN WINDOW_WIDTH
    ELSE IF x > WINDOW_WIDTH /\ vx > 0 THEN 0
    ELSE x

\* position_system, lines 71-75: the y axis of the wrap
WrapCornerY(y, vy) ==
    IF y < 0 /\ vy < 0 THEN WINDOW_HEIGHT
    ELSE IF y > WINDOW_HEIGHT /\ vy > 0 THEN 0
    ELSE y

\* position_system, lines 63-64: integration of one entity
Integrate(p, v, elapsed) == VAdd(p, VScale(v, elapsed))

\* position_system, lines 65-75: both axes, each on its own
WrapCorner(p, v) == <<WrapCornerX(p[1], v[1]), WrapCornerY(p[2], v[2])>>

\* Mutant: the sign of the correction is wrong.
reflect_Plus(d, n) == VAdd(d, VScale(n, 2 * Dot(d, n)))

\* reflect(d, n) = d - 2.0 * n * d.dot(&n)
reflect(d, n) == VAdd(d, VScale(n, -2 * Dot(d, n)))

\* Two balls of radius 25.6 overlap when their centres are closer than 51.2.
Overlap(p, q) ==
    LET dx == p[1] - q[1]
        dy == p[2] - q[2]
    IN 100 * (dx * dx + dy * dy) < (2 * BallRadiusTenths) * (2 * BallRadiusTenths)

\* The contacts world.contact_pairs(true) can yield for the objects as the
\* world holds them: a pair of distinct overlapping objects, with the normal and
\* the depth of its deepest contact.
Detected(normals, depths) ==
    {c \in [h1 : objects, h2 : objects, normal : normals, depth : depths] :
        c.h1 # c.h2 /\ Overlap(worldPos[c.h1], worldPos[c.h2])}

Init ==
    /\ example \in {"ncollide2d", "spaceship_01"}
    /\ pc = "mouse"
    /\ tick = 0
    /\ mouse = Zero
    /\ objects = {}
    /\ live = {}
    /\ transform = [e \in Entities |-> Zero]
    /\ velocity = [e \in Entities |-> Zero]
    /\ worldPos = [e \in Entities |-> Zero]
    /\ yielded = {}
    /\ nContacts = 0
    /\ shipPc = "physics"
    /\ shipPos = Zero
    /\ shipVel = Zero
    /\ integrated = [e \in Entities |-> Zero]
    /\ shipIn = Zero
    /\ spawnSpeed2 = [e \in Entities |-> 0]
    /\ frameVel = [e \in Entities |-> Zero]
    /\ framePos = [e \in Entities |-> Zero]
    /\ last = NoContact
    /\ touched = {}
    /\ lastVel = [e \in Entities |-> Zero]
    /\ lastPos = [e \in Entities |-> Zero]

\* mouse_position_system: the last CursorMoved event of the frame, if any
MousePositionSystem ==
    /\ example = "ncollide2d"
    /\ pc = "mouse"
    /\ tick < MaxTicks
    /\ \E m \in MousePositions \cup {mouse} : mouse' = m
    /\ pc' = "spawn"
    /\ frameVel' = velocity
    /\ UNCHANGED <<example, tick, objects, live, transform, velocity, worldPos,
                   yielded, nContacts, shipVars, integrated, shipIn, spawnSpeed2,
                   framePos, frameHist>>

\* spawn_sphere_system, left button just pressed: the collision object is added
\* to the world at once, the components are queued in Commands and reach the
\* queries when the stage ends.
SpawnSphere ==
    /\ example = "ncollide2d"
    /\ pc = "spawn"
    /\ Cardinality(objects) < MaxBodies
    /\ LET entity == Cardinality(objects) + 1
       IN \E v \in SpawnVelocities :
            /\ transform' = [transform EXCEPT ![entity] = mouse]
            /\ velocity' = [velocity EXCEPT ![entity] = v]
            /\ spawnSpeed2' = [spawnSpeed2 EXCEPT ![entity] = Dot(v, v)]
            /\ frameVel' = [frameVel EXCEPT ![entity] = v]
            /\ worldPos' = [worldPos EXCEPT ![entity] = mouse]
            /\ objects' = objects \cup {entity}
    /\ pc' = "position"
    /\ UNCHANGED <<example, tick, mouse, live, yielded, nContacts, shipVars, integrated,
                   shipIn, framePos, frameHist>>

\* spawn_sphere_system, no click this frame
SpawnNothing ==
    /\ example = "ncollide2d"
    /\ pc = "spawn"
    /\ pc' = "position"
    /\ UNCHANGED <<example, tick, mouse, objects, live, transform, velocity,
                   worldPos, yielded, nContacts, shipVars, histVars>>

\* Mutant: the collision object is given the translation before the wrap.
PositionStep_EarlyCopy(p, v, elapsed) ==
    LET moved == Integrate(p, v, elapsed)
        wrapped == WrapCorner(moved, v)
    IN [translation |-> wrapped, world |-> moved, moved |-> moved]

\* position_system, lines 62-81: the body of the loop for one entity; the
\* translation it leaves, the position it gives the collision object, and the
\* translation between integration and wrap
PositionStep(p, v, elapsed) ==
    LET moved == Integrate(p, v, elapsed)
        wrapped == WrapCorner(moved, v)
    IN [translation |-> wrapped, world |-> wrapped, moved |-> moved]

\* position_system: every entity the query yields is integrated, wrapped and
\* its translation copied to the world
PositionSystem ==
    /\ example = "ncollide2d"
    /\ pc = "position"
    /\ \E elapsed \in Elapsed :
         LET step(e) == PositionStep(transform[e], velocity[e], elapsed)
         IN /\ integrated' = [e \in Entities |->
                                IF e \in live THEN step(e).moved ELSE integrated[e]]
            /\ transform' = [e \in Entities |->
                               IF e \in live THEN step(e).translation
                               ELSE transform[e]]
            /\ worldPos' = [e \in Entities |->
                              IF e \in live THEN step(e).world ELSE worldPos[e]]
    /\ pc' = "collision"
    /\ UNCHANGED <<example, tick, mouse, objects, live, velocity, yielded,
                   nContacts, shipVars, shipIn, spawnSpeed2, frameVel, framePos,
                   frameHist>>

\* collision_system, lines 90-91: world.update() and the start of the loop over
\* world.contact_pairs(true)
CollisionUpdate ==
    /\ example = "ncollide2d"
    /\ pc = "collision"
    /\ pc' = "resolve"
    /\ yielded' = {}
    /\ framePos' = transform
    /\ UNCHANGED <<example, tick, mouse, objects, live, transform, velocity,
                   worldPos, nContacts, shipVars, integrated, shipIn, spawnSpeed2,
                   frameVel, frameHist>>

\* Mutant: only the first entity of the pair is reflected.
ReflectVelocities_FirstOnly(c, vel) ==
    [e \in Entities |->
        IF e \in live /\ e = c.h1 THEN reflect(vel[e], c.normal) ELSE vel[e]]

\* Mutant: an entity that a contact of this frame has reflected is not
\* reflected again.
ReflectVelocities_Once(c, vel) ==
    [e \in Entities |->
        IF e \in live /\ (e = c.h1 \/ e = c.h2) /\ e \notin UNION yielded
        THEN reflect(vel[e], c.normal)
        ELSE vel[e]]

\* Mutant: the test on the entity is missing, every velocity is reflected.
ReflectVelocities_All(c, vel) ==
    [e \in Entities |->
        IF e \in live THEN reflect(vel[e], c.normal) ELSE vel[e]]

\* collision_system, lines 98-102: the velocities after one contact
ReflectVelocities(c, vel) ==
    [e \in Entities |->
        IF e \in live /\ (e = c.h1 \/ e = c.h2)
        THEN reflect(vel[e], c.normal)
        ELSE vel[e]]

\* Mutant: the first entity of the pair is moved, not the second.
Depenetrate_First(c, tr) ==
    [e \in Entities |->
        IF e \in live /\ e = c.h1
        THEN VAdd(tr[e], VScale(c.normal, c.depth))
        ELSE tr[e]]

\* collision_system, lines 104-110: the translations after one contact
Depenetrate(c, tr) ==
    [e \in Entities |->
        IF e \in live /\ e = c.h2
        THEN VAdd(tr[e], VScale(c.normal, c.depth))
        ELSE tr[e]]

\* collision_system, lines 91-111: one iteration of the loop, for the next pair
\* the iterator yields and its deepest contact. The iterator yields a pair once;
\* which of the overlapping pairs carry a deepest contact, and in which order
\* they come, is the narrow phase's matter.
ResolveContact(normals, depths) ==
    /\ example = "ncollide2d"
    /\ pc = "resolve"
    /\ nContacts < MaxContacts
    /\ nContacts' = nContacts + 1
    /\ \E c \in Detected(normals, depths) :
         /\ {c.h1, c.h2} \notin yielded
         /\ yielded' = yielded \cup {{c.h1, c.h2}}
         /\ velocity' = ReflectVelocities(c, velocity)
         /\ transform' = Depenetrate(c, transform)
         /\ last' = c
         /\ touched' = touched \cup {c.h1, c.h2}
         /\ lastVel' = [e \in Entities |->
                           IF e \in {c.h1, c.h2}
                           THEN VAdd(velocity[e],
                                     VScale(c.normal, -2 * Dot(velocity[e], c.normal)))
                           ELSE lastVel[e]]
         /\ lastPos' = [e \in Entities |->
                           IF e = c.h2
                           THEN VAdd(transform[e], VScale(c.normal, c.depth))
                           ELSE IF e = c.h1 THEN transform[e]
                           ELSE lastPos[e]]
    /\ UNCHANGED <<example, pc, tick, mouse, objects, live, worldPos, shipVars,
                   integrated, shipIn, spawnSpeed2, frameVel, framePos>>

\* The iterator is exhausted, collision_system returns and the stage ends: the
\* queued Commands are applied, the frame is over.
EndOfFrame ==
    /\ example = "ncollide2d"
    /\ pc = "resolve"
    /\ live' = objects
    /\ tick' = tick + 1
    /\ pc' = "mouse"
    /\ yielded' = {}
    /\ integrated' = [e \in Entities |-> Zero]
    /\ frameVel' = [e \in Entities |-> Zero]
    /\ framePos' = [e \in Entities |-> Zero]
    /\ last' = NoContact
    /\ touched' = {}
    /\ lastVel' = [e \in Entities |-> Zero]
    /\ lastPos' = [e \in Entities |-> Zero]
    /\ UNCHANGED <<example, mouse, objects, transform, velocity, worldPos,
                   nContacts, shipVars, shipIn, spawnSpeed2>>

\* =================================================== spaceship_01 example

\* Mutant: the ship is held at the edge it crossed instead of the opposite one.
WrapCenterX_Clamp(x, vx) ==
    LET half_width == ARENA_WIDTH \div 2
    IN IF x < -half_width /\ vx < 0 THEN -half_width
       ELSE IF x > half_width /\ vx > 0 THEN half_width
       ELSE x

\* position_system, lines 107-113: the x axis of the wrap
WrapCenterX(x, vx) ==
    LET half_width == ARENA_WIDTH \div 2
    IN IF x < -half_width /\ vx < 0 THEN half_width
       ELSE IF x > half_width /\ vx > 0 THEN -half_width
       ELSE x

\* position_system, lines 114-120: the y axis of the wrap
WrapCenterY(y, vy) ==
    LET half_height == ARENA_HEIGHT \div 2
    IN IF y < -half_height /\ vy < 0 THEN half_height
       ELSE IF y > half_height /\ vy > 0 THEN -half_height
       ELSE y

WrapCenter(p, v) == <<WrapCenterX(p[1], v[1]), WrapCenterY(p[2], v[2])>>

\* The rapier step of the frame: forces and dampening have set the velocity,
\* the body moves by it.
ShipPhysicsStep ==
    /\ example = "spaceship_01"
    /\ shipPc = "physics"
    /\ \E v \in ShipVelocities :
         /\ shipVel' = v
         /\ shipPos' = VAdd(shipPos, v)
    /\ shipPc' = "position"
    /\ UNCHANGED <<example, progVars, histVars>>

\* position_system of spaceship_01
ShipPositionSystem ==
    /\ example = "spaceship_01"
    /\ shipPc = "position"
    /\ shipIn' = shipPos
    /\ shipPos' = WrapCenter(shipPos, shipVel)
    /\ shipPc' = "physics"
    /\ UNCHANGED <<example, progVars, shipVel, integrated, spawnSpeed2, frameVel,
                   framePos, frameHist>>

\* ========================================================= specifications

Frame(normals, depths) ==
    \/ MousePositionSystem
    \/ SpawnSphere
    \/ SpawnNothing
    \/ PositionSystem
    \/ CollisionUpdate
    \/ ResolveContact(normals, depths)
    \/ EndOfFrame
    \/ ShipPhysicsStep
    \/ ShipPositionSystem

\* The narrow phase keeps its contract: unit normals, depth >= 0.
Next == Frame(UnitNormals, Depths)
Spec == Init /\ [][Next]_vars

\* The Contact record is taken as it comes, whatever it carries.
NextRaw == Frame(RawNormals, RawDepths)
SpecRaw == Init /\ [][NextRaw]_vars

\* ================================================================= claims

\* The rule of the specification for one axis with bounds lo..hi.
AxisRule(x, v, lo, hi) ==
    IF x < lo /\ v < 0 THEN hi
    ELSE IF x > hi /\ v > 0 THEN lo
    ELSE x

HalfW == ARENA_WIDTH \div 2
HalfH == ARENA_HEIGHT \div 2

\* position_system of ncollide2d has just run
AfterWrap == example = "ncollide2d" /\ pc = "collision"
\* position_system of spaceship_01 has just run
AfterShipWrap == example = "spaceship_01" /\ shipPc = "physics"

\* C1: in both examples wrap follows the rule on each axis on its own: below
\* the lower bound with a negative velocity component the coordinate becomes
\* the upper bound, above the upper bound with a positive one it becomes the
\* lower bound, and in every other case it is left as it was.
C1_WrapRule ==
    /\ AfterWrap =>
         \A e \in live :
            /\ transform[e][1] =
                  AxisRule(integrated[e][1], velocity[e][1], 0, WINDOW_WIDTH)
            /\ transform[e][2] =
                  AxisRule(integrated[e][2], velocity[e][2], 0, WINDOW_HEIGHT)
    /\ AfterShipWrap =>
         /\ shipPos[1] = AxisRule(shipIn[1], shipVel[1], -HalfW, HalfW)
         /\ shipPos[2] = AxisRule(shipIn[2], shipVel[2], -HalfH, HalfH)

\* The ship left the arena on the x axis only: x is wrapped, y is kept.
C1_Witness ==
    /\ AfterShipWrap
    /\ shipIn[1] > HalfW /\ shipVel[1] > 0 /\ shipPos[1] = -HalfW
    /\ shipIn[2] # 0 /\ shipPos[2] = shipIn[2]

\* C2 as stated: a coordinate exactly at the lower bound with a negative
\* velocity component becomes the upper bound, and one exactly at the upper
\* bound with a positive velocity component becomes the lower bound.
C2_AsStated ==
    /\ AfterWrap =>
         \A e \in live :
            /\ (integrated[e][1] = 0 /\ velocity[e][1] < 0)
                  => transform[e][1] = WINDOW_WIDTH
            /\ (integrated[e][1] = WINDOW_WIDTH /\ velocity[e][1] > 0)
                  => transform[e][1] = 0
            /\ (integrated[e][2] = 0 /\ velocity[e][2] < 0)
                  => transform[e][2] = WINDOW_HEIGHT
            /\ (integrated[e][2] = WINDOW_HEIGHT /\ velocity[e][2] > 0)
                  => transform[e][2] = 0
    /\ AfterShipWrap =>
         /\ (shipIn[1] = -HalfW /\ shipVel[1] < 0) => shipPos[1] = HalfW
         /\ (shipIn[1] = HalfW /\ shipVel[1] > 0) => shipPos[1] = -HalfW
         /\ (shipIn[2] = -HalfH /\ shipVel[2] < 0) => shipPos[2] = HalfH
         /\ (shipIn[2] = HalfH /\ shipVel[2] > 0) => shipPos[2] = -HalfH

\* C2 amended: a coordinate exactly at a bound is left where it is, whatever
\* the velocity: the comparisons are strict, only a coordinate beyond the
\* bound wraps.
C2_AtBoundKept ==
    /\ AfterWrap =>
         \A e \in live :
            /\ integrated[e][1] \in {0, WINDOW_WIDTH}
                  => transform[e][1] = integrated[e][1]
            /\ integrated[e][2] \in {0, WINDOW_HEIGHT}
                  => transform[e][2] = integrated[e][2]
    /\ AfterShipWrap =>
         /\ shipIn[1] \in {-HalfW, HalfW} => shipPos[1] = shipIn[1]
         /\ shipIn[2] \in {-HalfH, HalfH} => shipPos[2] = shipIn[2]

\* A sphere reached the right edge exactly, moving right, and stayed there.
C2_Witness ==
    /\ AfterWrap
    /\ \E e \in live :
         /\ integrated[e][1] = WINDOW_WIDTH
         /\ velocity[e][1] > 0
         /\ transform[e][1] = WINDOW_WIDTH

\* C3: right after wrap has run, running it again with the same velocity and
\* the position it left moves no body: a body that was taken to the opposite
\* edge is not taken back.
C3_NoOscillation ==
    /\ AfterWrap =>
         \A e \in live : WrapCorner(transform[e], velocity[e]) = transform[e]
    /\ AfterShipWrap => WrapCenter(shipPos, shipVel) = shipPos

\* A sphere has just been taken from beyond the left edge to the right edge.
C3_Witness ==
    /\ AfterWrap
    /\ \E e \in live :
         /\ integrated[e][1] < 0
         /\ transform[e][1] = WINDOW_WIDTH

\* The mirror image of v about the normal n, as the specification writes it.
Mirror(v, n) == <<v[1] - 2 * n[1] * Dot(v, n), v[2] - 2 * n[2] * Dot(v, n)>>

\* This step resolved a contact: the contact is last'.
Resolves == example = "ncollide2d" /\ nContacts' = nContacts + 1

\* A contact has been resolved in this frame and the frame is not over.
InLoop == example = "ncollide2d" /\ pc = "resolve" /\ last # NoContact

WellFormed(c) == Norm2(c.normal) = 1 /\ c.depth >= 0

C7_SpeedKept ==
    /\ \A v \in SpawnVelocities, n \in UnitNormals :
         Norm2(reflect(v, n)) = Norm2(v)
    /\ example = "ncollide2d" =>
         \A e \in objects : Norm2(velocity[e]) = spawnSpeed2[e]

\* A sphere moves with a velocity that no spawn gives, and with the speed it
\* was spawned with.
C7_Witness ==
    /\ example = "ncollide2d"
    /\ \E e \in live :
         /\ velocity[e] \notin SpawnVelocities
         /\ Norm2(velocity[e]) = spawnSpeed2[e]

\* C8: while the contacts of a frame are resolved, every body has been through
\* wrap in this frame, the world holds the position wrap left it, and the pair
\* of every contact resolved overlaps at these positions.
C8_WrapThenContacts ==
    (example = "ncollide2d" /\ pc = "resolve") =>
       /\ \A e \in live :
            /\ framePos[e] = <<AxisRule(integrated[e][1], frameVel[e][1], 0, WINDOW_WIDTH),
                               AxisRule(integrated[e][2], frameVel[e][2], 0, WINDOW_HEIGHT)>>
            /\ worldPos[e] = framePos[e]
       /\ \A e \in objects \ live :
            /\ worldPos[e] = framePos[e]
            /\ WrapCorner(framePos[e], frameVel[e]) = framePos[e]
       /\ last # NoContact => Overlap(framePos[last.h1], framePos[last.h2])

\* A sphere that wrap took to the opposite edge in this frame is named by a
\* contact resolved in this frame.
C8_Witness ==
    /\ InLoop
    /\ \E e \in {last.h1, last.h2} \cap live :
         /\ integrated[e] # framePos[e]
         /\ velocity[e] # frameVel[e]

C10_VelocityOnlyByContact ==
    (example = "ncollide2d" /\ pc # "mouse") =>
       \A e \in objects : velocity[e] # frameVel[e] => e \in touched

\* In one frame a sphere was wrapped and keeps its velocity, while a contact
\* changed the velocity of another.
C10_Witness ==
    /\ InLoop
    /\ \E e \in live \ touched :
         /\ integrated[e] # transform[e]
         /\ velocity[e] = frameVel[e]
    /\ \E e \in live \cap touched : velocity[e] # frameVel[e]

\* The frame is over: collision_system has returned and the stage has ended.
EndOfTick == example = "ncollide2d" /\ pc = "mouse"

\* C11 as stated: a position that wrap or depenetration has changed is written
\* back to the collision world, so the collision object of every body is where
\* its transform is, right after wrap and at the end of every tick.
C11_WorldFollowsTransform ==
    /\ AfterWrap => \A e \in objects : worldPos[e] = transform[e]
    /\ EndOfTick => \A e \in objects : worldPos[e] = transform[e]

====
